---------------------------- MODULE Spec2Model ----------------------------
(***************************************************************************)
(* Model of the email tracking subsystem of Sales-Process-Automation:      *)
(*   - the tracking identifier scheme (generation, validation, routing),   *)
(*   - the Flask tracking server (track_open, track_click, campaign_stats, *)
(*     update_tracking_data under file_lock),                              *)
(*   - the send loop of EmailCampaign.run_campaign.                        *)
(* Strings are sequences of one-character strings, so that the regular     *)
(* expression of the validator and str.split are computed, not assumed.    *)
(***************************************************************************)
EXTENDS Integers, Sequences, FiniteSets, TLC

VARIABLES
    \* ---- identifier scheme (pure functions applied to drawn inputs) ----
    idpc,       \* "input" | "generated" | "checked"
    genArgs,    \* <<campaign_id, lead_id, nonce>> handed to _generate_tracking_id, or <<>>
    tid,        \* the tracking id under examination
    valid,      \* result of is_valid_tracking_id(tid)
    parsed,     \* result of tracking_id.split('_')[0]
    \* ---- tracking server ----
    files,      \* the file system: path |-> parsed JSON content
    unparsable, \* the paths whose bytes json.load cannot parse
    pixel,      \* whether PIXEL_FILE is there for send_file
    lock,       \* holder of file_lock, or NoThread
    now,        \* datetime.now(), a logical clock
    pc,         \* per request thread: position in its handler
    req,        \* per request thread: the request it serves
    local,      \* per request thread: tracking_data loaded from the file
    resp,       \* per request thread: the HTTP response
    \* ---- send loop (EmailCampaign.run_campaign) ----
    sendpc,           \* "loop" | "done" (returned) | "raised" (left by an exception)
                      \* | "reported" (main has called generate_campaign_report)
    leads,            \* self.leads_df, the rows in order
    batch_size,       \* self.batch_size
    idx,              \* i, the 0-based position of the next row
    successful_sends,
    failed_sends,
    attempts,         \* 1-based positions handed to _send_email, in order
    sleeps,           \* the time.sleep calls made, in order
    tracking_data,    \* self.tracking_data, the in-memory record
    results,          \* what _send_email returned for each attempt, in order
    report            \* what generate_campaign_report returned (and wrote)

idVars   == <<idpc, genArgs, tid, valid, parsed>>
srvVars  == <<lock, pc, req, local, resp>>
fsVars   == <<files, now, unparsable, pixel>>
sendVars == <<sendpc, leads, batch_size, idx, successful_sends, failed_sends,
              attempts, sleeps, tracking_data, results, report>>

vars == <<idpc, genArgs, tid, valid, parsed,
          files, now, unparsable, pixel, lock, pc, req, local, resp,
          sendpc, leads, batch_size, idx, successful_sends, failed_sends,
          attempts, sleeps, tracking_data, results, report>>

-----------------------------------------------------------------------------
(* Bounds *)
MaxLen == 5         \* longest raw string handed to the validator
MaxSeg == 2         \* longest campaign id / lead id handed to the generator
NThreads == 3       \* concurrent requests served by the tracking server
NClients == 2       \* concurrent requests where the store may fail or is shared
MaxSysLeads == 2    \* rows of the lead sheet when the server runs alongside
MaxEntries == 3     \* entries of a campaign record handed to campaign_stats
MaxLeads == 5       \* rows of the lead sheet
MaxBatch == 2       \* largest BATCH_SIZE

(* Program constants *)
NonceLen == 8       \* uuid.uuid4().hex[:8]
DelayMin == 60      \* DELAY_MIN
DelayMax == 180     \* DELAY_MAX

-----------------------------------------------------------------------------
(* Characters and strings *)
Digits   == {"0", "1", "2", "3", "4", "5", "6", "7", "8", "9"}
Letters  == {"a", "b", "c", "d", "e", "f"}   \* the letters that occur in the model
Alnum    == Letters \cup Digits              \* the class [a-zA-Z0-9]
Newline  == "\n"
Alphabet == {"a", "7", "_", ".", "/", Newline}  \* characters of raw inputs

RECURSIVE StringsOfLen(_, _)
StringsOfLen(A, n) ==
    IF n = 0 THEN {<<>>}
    ELSE {Append(s, c) : s \in StringsOfLen(A, n - 1), c \in A}

StringsUpTo(A, n) == UNION {StringsOfLen(A, k) : k \in 0..n}

Repeat(c, n) == [k \in 1..n |-> c]

\* str(k) for a one-digit number
DigitChar(k) == <<"0", "1", "2", "3", "4", "5", "6", "7", "8", "9">>[k + 1]

IsAlnumRun(s) == Len(s) >= 1 /\ \A k \in 1..Len(s) : s[k] \in Alnum

-----------------------------------------------------------------------------
(* Tracking identifier scheme *)

\* str.split('_'): the sequence of maximal '_'-free pieces, in order.
RECURSIVE Split(_)
Split(s) ==
    IF \A k \in 1..Len(s) : s[k] # "_"
    THEN <<s>>
    ELSE LET p == CHOOSE k \in 1..Len(s) :
                      s[k] = "_" /\ \A j \in 1..(k - 1) : s[j] # "_"
         IN  <<SubSeq(s, 1, p - 1)>> \o Split(SubSeq(s, p + 1, Len(s)))

\* EmailCampaign._generate_tracking_id: f"{campaign_id}_{lead_id}_{hex[:8]}"
GenerateTrackingId(campaign_id, lead_id, nonce) ==
    campaign_id \o <<"_">> \o lead_id \o <<"_">> \o nonce

\* A full match of [a-zA-Z0-9]+_[a-zA-Z0-9]+ (no anchors).
MatchesTwoSegments(s) ==
    \E p \in 1..Len(s) :
        /\ s[p] = "_"
        /\ IsAlnumRun(SubSeq(s, 1, p - 1))
        /\ IsAlnumRun(SubSeq(s, p + 1, Len(s)))

\* VALID_TRACKING_ID_PATTERN.match: '^' anchors at the start, '$' matches at
\* the end of the string or just before a newline that ends the string.
PatternMatch(s) ==
    \/ MatchesTwoSegments(s)
    \/ /\ Len(s) >= 1
       /\ s[Len(s)] = Newline
       /\ MatchesTwoSegments(SubSeq(s, 1, Len(s) - 1))

is_valid_tracking_id(tracking_id) == PatternMatch(tracking_id)

\* Mutant of CampaignIdOf: takes the last '_'-delimited piece.
CampaignIdOf_Last(tracking_id) == Split(tracking_id)[Len(Split(tracking_id))]

\* update_tracking_data: campaign_id = tracking_id.split('_')[0]
CampaignIdOf(tracking_id) == Split(tracking_id)[1]

\* What the specification calls well formed: three non-empty alphanumeric
\* segments separated by exactly two underscores.
ThreeSegments(s) ==
    /\ Len(Split(s)) = 3
    /\ \A k \in 1..3 : IsAlnumRun(Split(s)[k])

NoSeparator(s) == \A k \in 1..Len(s) : s[k] # "_"

RawIds    == StringsUpTo(Alphabet, MaxLen)
GenParts  == StringsUpTo({"a", "7", "_"}, MaxSeg)
Nonces    == {Repeat("a", NonceLen), [k \in 1..NonceLen |-> IF k % 2 = 0 THEN "7" ELSE "a"]}

IdInit ==
    /\ idpc = "input"
    /\ valid = FALSE
    /\ parsed = <<>>
    /\ \/ genArgs = <<>> /\ tid \in RawIds
       \/ genArgs \in (GenParts \X GenParts \X Nonces) /\ tid = <<>>

\* The send loop builds the identifier for a lead.
IdGenerate ==
    /\ idpc = "input"
    /\ genArgs # <<>>
    /\ tid' = GenerateTrackingId(genArgs[1], genArgs[2], genArgs[3])
    /\ idpc' = "generated"
    /\ UNCHANGED <<genArgs, valid, parsed>>
    /\ UNCHANGED <<srvVars, fsVars, sendVars>>

\* The server receives the identifier: validates it and extracts the
\* campaign id the way update_tracking_data does.
IdCheck ==
    /\ \/ idpc = "generated"
       \/ idpc = "input" /\ genArgs = <<>>
    /\ valid' = is_valid_tracking_id(tid)
    /\ parsed' = CampaignIdOf(tid)
    /\ idpc' = "checked"
    /\ UNCHANGED <<genArgs, tid>>
    /\ UNCHANGED <<srvVars, fsVars, sendVars>>

-----------------------------------------------------------------------------
(* Tracking server: configuration and data *)

Threads  == 1..NThreads
Clients  == 1..NClients     \* the request threads at work in the smaller systems
NoThread == 0

TRACKING_DATA_DIR == "tracking_data"

\* urllib.parse.urlparse(url) yields a scheme, a netloc ([userinfo@]host[:port])
\* and the hostname inside the netloc; a request may carry no url parameter
\* at all. Url is a url whose netloc is a bare host.
ParsedUrl(scheme, netloc, hostname) ==
    [given |-> TRUE, scheme |-> scheme, netloc |-> netloc, hostname |-> hostname]
Url(scheme, netloc) == ParsedUrl(scheme, netloc, netloc)
NoUrl               == [given |-> FALSE, scheme |-> "", netloc |-> "", hostname |-> ""]
DEFAULT_REDIRECT_URL == Url("https", "www.example.com")

is_valid_url(url) == url.scheme \in {"http", "https"} /\ url.netloc # ""

\* os.path.join(TRACKING_DATA_DIR, f'campaign_data_{campaign_id}.json')
DataFile(campaign_id) == <<TRACKING_DATA_DIR, campaign_id>>

Exists(fs, path) == path \in DOMAIN fs

EmptyData == <<>>                       \* the JSON object {}

\* with open(data_file, 'w') as f: json.dump(data, f)
WriteFile(fs, path, data) ==
    [q \in (DOMAIN fs) \cup {path} |-> IF q = path THEN data ELSE fs[q]]

\* Mutant of ShellEntry: the entry is created as opened.
ShellEntry_Opened(current_time) ==
    [keys          |-> {"first_seen", "events", "opened"},
     lead_id       |-> <<>>,
     first_seen    |-> current_time,
     events        |-> <<>>,
     opened        |-> TRUE,
     clicked       |-> FALSE,
     last_activity |-> 0,
     sent_time     |-> 0]

\* The entry update_tracking_data creates for an unknown tracking id.
ShellEntry(current_time) ==
    [keys          |-> {"first_seen", "events"},
     lead_id       |-> <<>>,
     first_seen    |-> current_time,
     events        |-> <<>>,
     opened        |-> FALSE,
     clicked       |-> FALSE,
     last_activity |-> 0,
     sent_time     |-> 0]

\* Mutant of SeededEntry: the entry is prepared with a sent time.
SeededEntry_Sent(lead_id) ==
    [keys          |-> {"lead_id", "company", "contact", "email", "sent_time",
                        "opened", "clicked", "responded", "last_activity"},
     lead_id       |-> lead_id,
     first_seen    |-> 0,
     events        |-> <<>>,
     opened        |-> FALSE,
     clicked       |-> FALSE,
     last_activity |-> 1,
     sent_time     |-> 1]

\* The entry _prepare_email stores for a lead: no "events" and no
\* "first_seen" key, sent_time and last_activity None.
SeededEntry(lead_id) ==
    [keys          |-> {"lead_id", "company", "contact", "email", "sent_time",
                        "opened", "clicked", "responded", "last_activity"},
     lead_id       |-> lead_id,
     first_seen    |-> 0,
     events        |-> <<>>,
     opened        |-> FALSE,
     clicked       |-> FALSE,
     last_activity |-> 0,
     sent_time     |-> 0]

\* Mutant of EventData: the event does not say which action it records.
EventData_Untyped(action, current_time, ip, url) ==
    [action    |-> "event",
     timestamp |-> current_time,
     ip        |-> ip,
     url       |-> IF action = "clicked" /\ url.given THEN url ELSE NoUrl]

\* event_data of update_tracking_data; "url" is present for clicks only.
EventData(action, current_time, ip, url) ==
    [action    |-> action,
     timestamp |-> current_time,
     ip        |-> ip,
     url       |-> IF action = "clicked" /\ url.given THEN url ELSE NoUrl]

\* Mutant of ApplyEvent: a repeated event for a flag already set is dropped.
ApplyEvent_NoRepeat(entry, action, current_time, ip, url) ==
    IF action \in entry.keys
    THEN [entry EXCEPT !.last_activity = current_time]
    ELSE [entry EXCEPT
            !.keys          = @ \cup {action, "last_activity"},
            !.events        = Append(@, EventData(action, current_time, ip, url)),
            !.opened        = IF action = "opened" THEN TRUE ELSE @,
            !.clicked       = IF action = "clicked" THEN TRUE ELSE @,
            !.last_activity = current_time]

\* tracking_data[tracking_id]["events"].append(event_data)
\* tracking_data[tracking_id][action] = True
\* tracking_data[tracking_id]["last_activity"] = current_time
ApplyEvent(entry, action, current_time, ip, url) ==
    [entry EXCEPT
        !.keys          = @ \cup {action, "last_activity"},
        !.events        = Append(@, EventData(action, current_time, ip, url)),
        !.opened        = IF action = "opened" THEN TRUE ELSE @,
        !.clicked       = IF action = "clicked" THEN TRUE ELSE @,
        !.last_activity = current_time]

\* Mutant of WithEntry: the entry is created afresh on every call.
WithEntry_Fresh(data, tracking_id, current_time) ==
    [k \in (DOMAIN data) \cup {tracking_id} |->
        IF k = tracking_id THEN ShellEntry(current_time) ELSE data[k]]

\* Lines 203-225 of update_tracking_data on the loaded dictionary.
WithEntry(data, tracking_id, current_time) ==
    IF tracking_id \in DOMAIN data
    THEN data
    ELSE [k \in (DOMAIN data) \cup {tracking_id} |->
            IF k = tracking_id THEN ShellEntry(current_time) ELSE data[k]]

\* Mutant of UpdatedData: an event for an identifier without entry is
\* dropped.
UpdatedData_KnownOnly(data, tracking_id, action, current_time, ip, url) ==
    IF tracking_id \in DOMAIN data
    THEN [data EXCEPT ![tracking_id] = ApplyEvent(@, action, current_time, ip, url)]
    ELSE data

\* Lines 203-225 applied to the loaded dictionary.
UpdatedData(data, tracking_id, action, current_time, ip, url) ==
    LET d == WithEntry(data, tracking_id, current_time)
    IN  [d EXCEPT ![tracking_id] = ApplyEvent(@, action, current_time, ip, url)]

\* data.get(flag, False)
GetFlag(entry, flag) ==
    /\ flag \in entry.keys
    /\ IF flag = "opened" THEN entry.opened ELSE entry.clicked

\* Python's round() on a ratio n/d: to the nearest integer, ties to even.
RoundHalfEven(n, d) ==
    LET q == n \div d
        r == n % d
    IN  IF 2 * r < d THEN q
        ELSE IF 2 * r > d THEN q + 1
        ELSE IF q % 2 = 0 THEN q ELSE q + 1

\* Mutant of Rate: no guard against an empty denominator (yields -1 here
\* where the program would raise ZeroDivisionError).
Rate_Unguarded(part, whole) ==
    IF whole = 0 THEN -1 ELSE RoundHalfEven(part * 10000, whole)

\* round(part / whole * 100, 2) if whole > 0 else 0, in hundredths of a
\* percent (3333 stands for 33.33).
Rate(part, whole) ==
    IF whole > 0 THEN RoundHalfEven(part * 10000, whole) ELSE 0

CountFlag(data, flag) == Cardinality({k \in DOMAIN data : GetFlag(data[k], flag)})

\* Lines 155-168 of campaign_stats.
StatsOf(campaign_id, data) ==
    LET total_recipients == Cardinality(DOMAIN data)
        total_opens      == CountFlag(data, "opened")
        total_clicks     == CountFlag(data, "clicked")
    IN  [campaign_id        |-> campaign_id,
         total_recipients   |-> total_recipients,
         total_opens        |-> total_opens,
         total_clicks       |-> total_clicks,
         open_rate          |-> Rate(total_opens, total_recipients),
         click_rate         |-> Rate(total_clicks, total_recipients),
         click_to_open_rate |-> Rate(total_clicks, total_opens)]

NoStats == StatsOf(<<>>, EmptyData)

\* generate_campaign_report: 'hot_leads' are the entries with data['clicked'],
\* 'warm_leads' those with data['opened'] and not data['clicked'].
HotLeads(data)  == {k \in DOMAIN data : data[k].clicked}

\* Mutant of WarmLeads: every opened entry is warm.
WarmLeads_Opened(data) == {k \in DOMAIN data : data[k].opened}

WarmLeads(data) == {k \in DOMAIN data : data[k].opened /\ ~data[k].clicked}

\* (part / whole * 100) if whole > 0 else 0, kept as the exact quotient
\* num / den: the report does not round.
ReportRate(part, whole) ==
    IF whole > 0 THEN [num |-> part * 100, den |-> whole] ELSE [num |-> 0, den |-> 1]

\* generate_campaign_report lines 295-337; the lead lists are given by the
\* tracking ids of their entries.
ReportOf(campaign_id, data) ==
    LET total_leads   == Cardinality(DOMAIN data)
        sent_count    == Cardinality({k \in DOMAIN data : data[k].sent_time # 0})
        opened_count  == Cardinality({k \in DOMAIN data : data[k].opened})
        clicked_count == Cardinality({k \in DOMAIN data : data[k].clicked})
    IN  [campaign_id        |-> campaign_id,
         total_leads        |-> total_leads,
         emails_sent        |-> sent_count,
         emails_opened      |-> opened_count,
         links_clicked      |-> clicked_count,
         open_rate          |-> ReportRate(opened_count, sent_count),
         click_rate         |-> ReportRate(clicked_count, sent_count),
         click_to_open_rate |-> ReportRate(clicked_count, opened_count),
         hot_leads          |-> HotLeads(data),
         warm_leads         |-> WarmLeads(data)]

NoReport == ReportOf(<<>>, EmptyData)

Response(status, kind, stats, location) ==
    [status |-> status, kind |-> kind, stats |-> stats, location |-> location]

NoResponse == Response(0, "none", NoStats, NoUrl)

\* re.match(r'^[a-zA-Z0-9]+$', campaign_id)
IsValidCampaignId(campaign_id) ==
    \/ IsAlnumRun(campaign_id)
    \/ /\ Len(campaign_id) >= 1
       /\ campaign_id[Len(campaign_id)] = Newline
       /\ IsAlnumRun(SubSeq(campaign_id, 1, Len(campaign_id) - 1))

\* The whole of campaign_stats as a function of the file system.
CampaignStatsResponse(fs, campaign_id) ==
    IF ~IsValidCampaignId(campaign_id)
    THEN Response(400, "error", NoStats, NoUrl)
    ELSE IF ~Exists(fs, DataFile(campaign_id))
    THEN Response(404, "error", NoStats, NoUrl)
    ELSE IF DataFile(campaign_id) \in unparsable
    THEN Response(500, "error", NoStats, NoUrl)
    ELSE Response(200, "stats", StatsOf(campaign_id, fs[DataFile(campaign_id)]), NoUrl)

-----------------------------------------------------------------------------
(* Tracking server: request handlers *)

\* Identifiers and parameters the clients send.
Campaign1   == <<"2", "0", "2", "5", "0", "1", "0", "1", "0", "0", "0", "0", "0", "0">>
Campaign2   == <<"2", "0", "2", "5", "0", "1", "0", "2", "0", "0", "0", "0", "0", "0">>
GeneratedId == GenerateTrackingId(Campaign1, <<"7">>, Repeat("a", NonceLen))
TraversalId == <<".", ".", "/", "a">>
TrackIds    == {Campaign1 \o <<"_", "7">>, Campaign1 \o <<"_", "8">>,
                Campaign2 \o <<"_", "7">>, GeneratedId, TraversalId}
GoodUrl     == Url("https", "example.com")
BadUrl      == Url("javascript", "")
\* Values of the url parameter, as urlparse splits them: "//example.com/x",
\* "http:///x", "http://:80/x" and "http://user@/x".
SchemelessUrl == ParsedUrl("", "example.com", "example.com")
HostlessUrl   == ParsedUrl("http", "", "")
PortOnlyUrl   == ParsedUrl("http", ":80", "")
UserOnlyUrl   == ParsedUrl("http", "user@", "")
ClickUrls     == {NoUrl, GoodUrl, BadUrl, SchemelessUrl, HostlessUrl, PortOnlyUrl,
                  UserOnlyUrl}
ClickIds      == {Campaign1 \o <<"_", "7">>, GeneratedId}
\* (tracking id, url parameter) of the click requests
ClickInputs == {<<Campaign1 \o <<"_", "7">>, GoodUrl>>,
                <<Campaign1 \o <<"_", "7">>, NoUrl>>,
                <<Campaign1 \o <<"_", "8">>, GoodUrl>>,
                <<GeneratedId, GoodUrl>>,
                <<TraversalId, GoodUrl>>}
StatsIds    == {Campaign1, <<".", ".", "/", "a">>}

NoRequest == [op |-> "none", id |-> <<>>, action |-> "none", url |-> NoUrl, ip |-> 0,
              raw |-> NoUrl]
\* logged: what update_tracking_data has written to the log for this call,
\* "updated" (logger.info, line 231) or "error" (logger.error, line 234).
NoLocal   == [data |-> EmptyData, current_time |-> 0, logged |-> "none"]

SrvInit ==
    /\ lock = NoThread
    /\ pc = [t \in Threads |-> "idle"]
    /\ req = [t \in Threads |-> NoRequest]
    /\ local = [t \in Threads |-> NoLocal]
    /\ resp = [t \in Threads |-> NoResponse]

\* Mutant of LockFree: file_lock does not exclude.
LockFree_NoMutex == TRUE

\* file_lock can be taken.
LockFree == lock = NoThread

\* Mutant of Rejects: the handlers skip the validation.
Rejects_Nothing(tracking_id) == FALSE

\* if not is_valid_tracking_id(tracking_id): abort(400)
Rejects(tracking_id) == ~is_valid_tracking_id(tracking_id)

\* track_open up to the call of update_tracking_data.
TrackOpenBegin(t, tracking_id) ==
    /\ pc[t] = "idle"
    /\ req' = [req EXCEPT ![t] = [op |-> "open", id |-> tracking_id,
                                  action |-> "opened", url |-> NoUrl, ip |-> t,
                                  raw |-> NoUrl]]
    /\ IF Rejects(tracking_id)
       THEN /\ resp' = [resp EXCEPT ![t] = Response(400, "error", NoStats, NoUrl)]
            /\ pc' = [pc EXCEPT ![t] = "done"]
       ELSE /\ pc' = [pc EXCEPT ![t] = "acquire"]
            /\ UNCHANGED resp
    /\ UNCHANGED <<files, unparsable, lock, now, local>>
    /\ UNCHANGED <<idVars, sendVars, pixel>>

\* url = request.args.get('url', DEFAULT); invalid urls fall back as well.
ResolveUrl(raw) ==
    LET url == IF raw.given THEN raw ELSE DEFAULT_REDIRECT_URL
    IN  IF is_valid_url(url) THEN url ELSE DEFAULT_REDIRECT_URL

\* track_click up to the call of update_tracking_data.
TrackClickBegin(t, tracking_id, raw) ==
    /\ pc[t] = "idle"
    /\ req' = [req EXCEPT ![t] = [op |-> "click", id |-> tracking_id,
                                  action |-> "clicked",
                                  url |-> IF Rejects(tracking_id) THEN raw
                                          ELSE ResolveUrl(raw),
                                  ip |-> t, raw |-> raw]]
    /\ IF Rejects(tracking_id)
       THEN /\ resp' = [resp EXCEPT ![t] = Response(400, "error", NoStats, NoUrl)]
            /\ pc' = [pc EXCEPT ![t] = "done"]
       ELSE /\ pc' = [pc EXCEPT ![t] = "acquire"]
            /\ UNCHANGED resp
    /\ UNCHANGED <<files, unparsable, lock, now, local>>
    /\ UNCHANGED <<idVars, sendVars, pixel>>

\* update_tracking_data: with file_lock (entry).
Acquire(t) ==
    /\ pc[t] = "acquire"
    /\ LockFree
    /\ lock' = t
    /\ pc' = [pc EXCEPT ![t] = "load"]
    /\ UNCHANGED <<files, unparsable, now, req, local, resp>>
    /\ UNCHANGED <<idVars, sendVars, pixel>>

\* What the handler answers once update_tracking_data has returned:
\* track_open sends PIXEL_FILE (abort(500) on FileNotFoundError), track_click
\* redirects.
HandlerResponse(r) ==
    IF r.op = "open"
    THEN IF pixel THEN Response(200, "pixel", NoStats, NoUrl)
         ELSE Response(500, "error", NoStats, NoUrl)
    ELSE Response(302, "redirect", NoStats, r.url)

\* Mutant of LockAfterUpdate: the lock stays with the call that has written.
LockAfterUpdate_Held(t) == t

\* 'with file_lock:' releases the lock at the end of the block.
LockAfterUpdate(t) == NoThread

\* Mutant of LockAfterFailure: the lock stays with the failed call.
LockAfterFailure_Held(t) == t

\* 'with file_lock:' releases the lock when an exception leaves the block.
LockAfterFailure(t) == NoThread

\* Mutant of FailureResponse: the exception leaves update_tracking_data and
\* the handler with it.
FailureResponse_Propagates(r) == Response(500, "error", NoStats, NoUrl)

\* 'except Exception as e: logger.error(...)': update_tracking_data returns
\* normally and the handler goes on.
FailureResponse(r) == HandlerResponse(r)

\* Mutant of JsonLoadRaises: unparsable content is read as an empty record.
JsonLoadRaises_Never(bad, path) == FALSE

\* json.load(f) raises JSONDecodeError on content that is not JSON.
JsonLoadRaises(bad, path) == path \in bad

\* update_tracking_data lines 191-201: create the file if missing, load it,
\* read the clock. When json.load raises, the except clause logs, the lock
\* is left and the handler answers.
Load(t) ==
    LET path == DataFile(CampaignIdOf(req[t].id))
        fs   == IF Exists(files, path) THEN files
                ELSE WriteFile(files, path, EmptyData)
    IN  /\ pc[t] = "load"
        /\ files' = fs
        /\ IF JsonLoadRaises(unparsable, path)
           THEN /\ local' = [local EXCEPT ![t].logged = "error"]
                /\ lock' = LockAfterFailure(t)
                /\ resp' = [resp EXCEPT ![t] = FailureResponse(req[t])]
                /\ pc' = [pc EXCEPT ![t] = "done"]
                /\ UNCHANGED now
           ELSE /\ now' = now + 1
                /\ local' = [local EXCEPT ![t] = [data |-> fs[path],
                                                  current_time |-> now + 1,
                                                  logged |-> "none"]]
                /\ pc' = [pc EXCEPT ![t] = "save"]
                /\ UNCHANGED <<lock, resp>>
        /\ UNCHANGED <<unparsable, req>>
        /\ UNCHANGED <<idVars, sendVars, pixel>>

\* update_tracking_data lines 203-234: modify, write back, leave the lock;
\* a KeyError on an entry without "events" is caught and only logged. The
\* handler then answers.
Save(t) ==
    LET path == DataFile(CampaignIdOf(req[t].id))
        data == local[t].data
        id   == req[t].id
    IN  /\ pc[t] = "save"
        /\ IF id \in DOMAIN data /\ "events" \notin data[id].keys
           THEN /\ UNCHANGED <<files, unparsable>>
                /\ local' = [local EXCEPT ![t].logged = "error"]
                /\ resp' = [resp EXCEPT ![t] = FailureResponse(req[t])]
                /\ lock' = LockAfterFailure(t)
           ELSE /\ files' = WriteFile(files, path,
                                UpdatedData(data, id, req[t].action,
                                            local[t].current_time, req[t].ip, req[t].url))
                /\ unparsable' = unparsable \ {path}
                /\ local' = [local EXCEPT ![t].logged = "updated"]
                /\ resp' = [resp EXCEPT ![t] = HandlerResponse(req[t])]
                /\ lock' = LockAfterUpdate(t)
        /\ pc' = [pc EXCEPT ![t] = "done"]
        /\ UNCHANGED <<now, req>>
        /\ UNCHANGED <<idVars, sendVars, pixel>>

\* Lines 227-229 when the write is cut short (OSError of a full disk, say):
\* open(data_file, 'w') has truncated the file and json.dump has written
\* only a part. The except clause logs, the lock is left, the handler answers.
SaveFails(t) ==
    LET path == DataFile(CampaignIdOf(req[t].id))
        data == local[t].data
        id   == req[t].id
    IN  /\ pc[t] = "save"
        /\ ~(id \in DOMAIN data /\ "events" \notin data[id].keys)
        /\ files' = WriteFile(files, path, EmptyData)
        /\ unparsable' = unparsable \cup {path}
        /\ local' = [local EXCEPT ![t].logged = "error"]
        /\ resp' = [resp EXCEPT ![t] = FailureResponse(req[t])]
        /\ lock' = LockAfterFailure(t)
        /\ pc' = [pc EXCEPT ![t] = "done"]
        /\ UNCHANGED <<now, req>>
        /\ UNCHANGED <<idVars, sendVars, pixel>>

\* campaign_stats up to the lock.
StatsBegin(t, campaign_id) ==
    /\ pc[t] = "idle"
    /\ req' = [req EXCEPT ![t] = [op |-> "stats", id |-> campaign_id,
                                  action |-> "none", url |-> NoUrl, ip |-> t,
                                  raw |-> NoUrl]]
    /\ IF ~IsValidCampaignId(campaign_id)
       THEN /\ resp' = [resp EXCEPT ![t] = CampaignStatsResponse(files, campaign_id)]
            /\ pc' = [pc EXCEPT ![t] = "done"]
       ELSE /\ pc' = [pc EXCEPT ![t] = "stats"]
            /\ UNCHANGED resp
    /\ UNCHANGED <<files, unparsable, lock, now, local>>
    /\ UNCHANGED <<idVars, sendVars, pixel>>

\* Lines 227-229 step by step. First open(data_file, 'w'): the file is
\* truncated, and until json.dump is through its content does not parse.
Truncate(t) ==
    LET path == DataFile(CampaignIdOf(req[t].id))
        data == local[t].data
        id   == req[t].id
    IN  /\ pc[t] = "save"
        /\ ~(id \in DOMAIN data /\ "events" \notin data[id].keys)
        /\ files' = WriteFile(files, path, EmptyData)
        /\ unparsable' = unparsable \cup {path}
        /\ pc' = [pc EXCEPT ![t] = "write"]
        /\ UNCHANGED <<lock, now, req, local, resp>>
        /\ UNCHANGED <<idVars, sendVars, pixel>>

\* Then json.dump(tracking_data, f) completes, the lock is left and the
\* handler answers.
Dump(t) ==
    LET path == DataFile(CampaignIdOf(req[t].id))
    IN  /\ pc[t] = "write"
        /\ files' = WriteFile(files, path,
                        UpdatedData(local[t].data, req[t].id, req[t].action,
                                    local[t].current_time, req[t].ip, req[t].url))
        /\ unparsable' = unparsable \ {path}
        /\ local' = [local EXCEPT ![t].logged = "updated"]
        /\ resp' = [resp EXCEPT ![t] = HandlerResponse(req[t])]
        /\ lock' = LockAfterUpdate(t)
        /\ pc' = [pc EXCEPT ![t] = "done"]
        /\ UNCHANGED <<now, req>>
        /\ UNCHANGED <<idVars, sendVars, pixel>>

\* Mutant of StatsMayRead: campaign_stats reads without the lock.
StatsMayRead_Unlocked == TRUE

\* 'with file_lock:' of campaign_stats (line 147).
StatsMayRead == LockFree

\* campaign_stats lines 147-174: read the file under the lock, compute.
StatsRead(t) ==
    /\ pc[t] = "stats"
    /\ StatsMayRead
    /\ resp' = [resp EXCEPT ![t] = CampaignStatsResponse(files, req[t].id)]
    /\ pc' = [pc EXCEPT ![t] = "done"]
    /\ UNCHANGED <<files, unparsable, lock, now, req, local>>
    /\ UNCHANGED <<idVars, sendVars, pixel>>

IdParked ==
    /\ idpc = "off"
    /\ genArgs = <<>>
    /\ tid = <<>>
    /\ valid = FALSE
    /\ parsed = <<>>

FsInit ==
    /\ files = <<>>
    /\ now = 0
    /\ unparsable = {}
    /\ pixel = TRUE

SendParked ==
    /\ sendpc = "off"
    /\ leads = <<>>
    /\ batch_size = 1
    /\ idx = 0
    /\ successful_sends = 0
    /\ failed_sends = 0
    /\ attempts = <<>>
    /\ sleeps = <<>>
    /\ tracking_data = <<>>
    /\ results = <<>>
    /\ report = NoReport

SrvParked ==
    /\ lock = NoThread
    /\ pc = [t \in Threads |-> "off"]
    /\ req = [t \in Threads |-> NoRequest]
    /\ local = [t \in Threads |-> NoLocal]
    /\ resp = [t \in Threads |-> NoResponse]

-----------------------------------------------------------------------------
(* Send loop: EmailCampaign.run_campaign *)

\* A row of the lead sheet as pandas hands it over: a cell is a string or,
\* when the sheet has no value there, NaN.
Lead(email, contact, company) == [email |-> email, contact |-> contact, company |-> company]

LeadKinds ==
    {Lead("addr", "name", "name"),      \* a complete row
     Lead("nan",  "name", "name"),      \* no address
     Lead("addr", "nan",  "name"),      \* no contact person
     Lead("addr", "name", "nan")}       \* no company name

RECURSIVE LeadLists(_)
LeadLists(n) ==
    IF n = 0 THEN {<<>>}
    ELSE {Append(l, k) : l \in LeadLists(n - 1), k \in LeadKinds}

\* not ('Email' not in lead or not lead['Email'] or pd.isna(lead['Email']))
HasAddress(lead) == lead.email \notin {"", "nan"}

\* _prepare_email: lead['Contact Person'] is truthy for NaN, and
\* full_name.split() then raises AttributeError.
PrepareRaises(lead) == lead.contact = "nan"

\* run_campaign line 262: iterating lead.get('Company Name') raises TypeError
\* when the cell is NaN.
SafeNameRaises(lead) == lead.company = "nan"

\* Mutant of CampaignFile: the send loop saves into the server's file.
CampaignFile_Shared(campaign_id) == DataFile(campaign_id)

\* self.tracking_file = f'campaign_data_{campaign_id}.json', in the working
\* directory.
CampaignFile(campaign_id) == <<".", campaign_id>>

\* Mutant of Stamp: a successful dispatch leaves the entry as prepared.
Stamp_Nothing(entry, current_time) == entry

\* run_campaign lines 257-258, after _send_email returned True.
Stamp(entry, current_time) ==
    [entry EXCEPT !.sent_time = current_time, !.last_activity = current_time]

Sleep(after, kind, lo, hi) == [after |-> after, kind |-> kind, lo |-> lo, hi |-> hi]

\* Lines 277-287: the sleeps that follow the row at 0-based position i.
SleepsAfter(i, total_leads, b) ==
    (IF i < total_leads - 1
     THEN <<Sleep(i + 1, "inter", DelayMin, DelayMax)>> ELSE <<>>)
    \o
    (IF (i + 1) % b = 0 /\ i < total_leads - 1
     THEN <<Sleep(i + 1, "batch", DelayMax * 2, DelayMax * 3)>> ELSE <<>>)

SendInit ==
    /\ sendpc = "loop"
    /\ leads \in UNION {LeadLists(n) : n \in 0..MaxLeads}
    /\ batch_size \in 1..MaxBatch
    /\ idx = 0
    /\ successful_sends = 0
    /\ failed_sends = 0
    /\ attempts = <<>>
    /\ sleeps = <<>>
    /\ tracking_data = <<>>
    /\ results = <<>>
    /\ report = NoReport

\* Lines 238-241: a row without address is skipped with 'continue'.
SendSkip ==
    /\ sendpc = "loop"
    /\ idx < Len(leads)
    /\ ~HasAddress(leads[idx + 1])
    /\ idx' = idx + 1
    /\ UNCHANGED <<sendpc, leads, batch_size, successful_sends, failed_sends,
                   attempts, sleeps, tracking_data, results, report>>
    /\ UNCHANGED <<idVars, srvVars, fsVars>>

\* Line 244: _prepare_email raises; nothing in run_campaign catches it.
SendPrepareRaises ==
    /\ sendpc = "loop"
    /\ idx < Len(leads)
    /\ HasAddress(leads[idx + 1])
    /\ PrepareRaises(leads[idx + 1])
    /\ sendpc' = "raised"
    /\ UNCHANGED <<leads, batch_size, idx, successful_sends, failed_sends,
                   attempts, sleeps, tracking_data, results, report>>
    /\ UNCHANGED <<idVars, srvVars, fsVars>>

\* Lines 243-287 for a row that is dispatched; success is the outcome of
\* _send_email, nonce the random part of the tracking id.
SendDispatch(success, nonce) ==
    LET lead     == leads[idx + 1]
        lead_id  == <<DigitChar(idx)>>
        id       == GenerateTrackingId(Campaign1, lead_id, nonce)
        prepared == [k \in (DOMAIN tracking_data) \cup {id} |->
                        IF k = id THEN SeededEntry(lead_id) ELSE tracking_data[k]]
        stamped  == [prepared EXCEPT ![id] = Stamp(@, now + 1)]
    IN  /\ sendpc = "loop"
        /\ idx < Len(leads)
        /\ HasAddress(lead)
        /\ ~PrepareRaises(lead)
        /\ attempts' = Append(attempts, idx + 1)
        /\ results' = Append(results, success)
        /\ IF success /\ SafeNameRaises(lead)
           THEN /\ tracking_data' = stamped
                /\ now' = now + 1
                /\ sendpc' = "raised"
                /\ UNCHANGED <<idx, successful_sends, failed_sends, sleeps, files, unparsable>>
           ELSE /\ tracking_data' = IF success THEN stamped ELSE prepared
                /\ now' = IF success THEN now + 1 ELSE now
                /\ successful_sends' = IF success THEN successful_sends + 1
                                       ELSE successful_sends
                /\ failed_sends' = IF success THEN failed_sends ELSE failed_sends + 1
                /\ files' = WriteFile(files, CampaignFile(Campaign1), tracking_data')
                /\ unparsable' = unparsable \ {CampaignFile(Campaign1)}
                /\ sleeps' = sleeps \o SleepsAfter(idx, Len(leads), batch_size)
                /\ idx' = idx + 1
                /\ UNCHANGED sendpc
        /\ UNCHANGED <<leads, batch_size, pixel, report>>
        /\ UNCHANGED <<idVars, srvVars>>

\* Lines 289-291: the loop is exhausted, run_campaign returns the counters.
SendReturn ==
    /\ sendpc = "loop"
    /\ idx = Len(leads)
    /\ sendpc' = "done"
    /\ UNCHANGED <<leads, batch_size, idx, successful_sends, failed_sends,
                   attempts, sleeps, tracking_data, results, report>>
    /\ UNCHANGED <<idVars, srvVars, fsVars>>

\* Mutant of ReportSource: the report is computed from the server's record.
ReportSource_Store(data) ==
    IF Exists(files, DataFile(Campaign1)) /\ DataFile(Campaign1) \notin unparsable
    THEN files[DataFile(Campaign1)] ELSE data

\* generate_campaign_report reads self.tracking_data, the dictionary in the
\* memory of the send-loop process.
ReportSource(data) == data

\* main after run_campaign has returned: campaign.generate_campaign_report().
GenerateReport ==
    /\ sendpc = "done"
    /\ report' = ReportOf(Campaign1, ReportSource(tracking_data))
    /\ sendpc' = "reported"
    /\ UNCHANGED <<leads, batch_size, idx, successful_sends, failed_sends,
                   attempts, sleeps, tracking_data, results>>
    /\ UNCHANGED <<idVars, srvVars, fsVars>>

-----------------------------------------------------------------------------
(* Specifications *)

InitIds == IdInit /\ SrvParked /\ FsInit /\ SendParked
NextIds == IdGenerate \/ IdCheck
SpecIds == InitIds /\ [][NextIds]_vars

\* Campaign records the stats endpoint may find in its directory: entries
\* left by update_tracking_data and entries in the send loop's format.
EntryId(k) == Campaign1 \o <<"_", DigitChar(k)>>

StoredEntryKinds ==
    {ApplyEvent(ShellEntry(1), "opened", 1, 0, NoUrl),
     ApplyEvent(ShellEntry(1), "clicked", 1, 0, GoodUrl),
     ApplyEvent(ApplyEvent(ShellEntry(1), "opened", 1, 0, NoUrl), "clicked", 2, 0, GoodUrl),
     SeededEntry(<<"7">>),
     [SeededEntry(<<"7">>) EXCEPT !.opened = TRUE]}

StoredRecords ==
    UNION {[{EntryId(k) : k \in 1..n} -> StoredEntryKinds] : n \in 0..MaxEntries}

InitStats ==
    /\ SrvInit
    /\ now = 0
    /\ unparsable = {}
    /\ pixel = TRUE
    /\ files \in {<<>>} \cup {WriteFile(<<>>, DataFile(Campaign1), r) : r \in StoredRecords}
    /\ IdParked
    /\ SendParked
NextStats ==
    \/ \E t \in Threads, c \in StatsIds : StatsBegin(t, c)
    \/ \E t \in Threads : StatsRead(t)
SpecStats == InitStats /\ [][NextStats]_vars

InitSend == SendInit /\ FsInit /\ IdParked /\ SrvParked
NextSend ==
    \/ SendSkip
    \/ SendPrepareRaises
    \/ \E success \in BOOLEAN, nonce \in Nonces : SendDispatch(success, nonce)
    \/ SendReturn
    \/ GenerateReport
SpecSend == InitSend /\ [][NextSend]_vars

InitServer == SrvInit /\ FsInit /\ IdParked /\ SendParked
NextServer ==
    \/ \E t \in Threads, id \in TrackIds : TrackOpenBegin(t, id)
    \/ \E t \in Threads, c \in ClickInputs : TrackClickBegin(t, c[1], c[2])
    \/ \E t \in Threads, c \in StatsIds : StatsBegin(t, c)
    \/ \E t \in Threads : Acquire(t)
    \/ \E t \in Threads : Load(t)
    \/ \E t \in Threads : Save(t)
    \/ \E t \in Threads : StatsRead(t)
SpecServer == InitServer /\ [][NextServer]_vars


\* Click requests over the values the url parameter can take.
InitClick == SrvInit /\ FsInit /\ IdParked /\ SendParked
NextClick ==
    \/ \E t \in Clients, id \in ClickIds, raw \in ClickUrls : TrackClickBegin(t, id, raw)
    \/ \E t \in Clients : Acquire(t)
    \/ \E t \in Clients : Load(t)
    \/ \E t \in Clients : Save(t)
SpecClick == InitClick /\ [][NextClick]_vars


\* The server over a store that may already hold a campaign file, parsable or
\* not, with writes that may be cut short and a pixel file that may be missing.
StoreRecords ==
    {EmptyData,
     [k \in {EntryId(7)} |-> ApplyEvent(ShellEntry(1), "opened", 1, 0, NoUrl)]}

StoreOpenIds  == {EntryId(7), Campaign2 \o <<"_", "7">>}
StoreClicks   == {<<EntryId(7), GoodUrl>>}
StoreStatsIds == {Campaign1, Campaign2, Campaign1 \o <<Newline>>, TraversalId}

InitStore ==
    /\ SrvInit
    /\ now = 1
    /\ pixel \in BOOLEAN
    /\ \/ files = <<>> /\ unparsable = {}
       \/ \E r \in StoreRecords :
             files = WriteFile(<<>>, DataFile(Campaign1), r) /\ unparsable = {}
       \/ /\ files = WriteFile(<<>>, DataFile(Campaign1), EmptyData)
          /\ unparsable = {DataFile(Campaign1)}
    /\ IdParked
    /\ SendParked
NextStore ==
    \/ \E t \in Clients, id \in StoreOpenIds : TrackOpenBegin(t, id)
    \/ \E t \in Clients, c \in StoreClicks : TrackClickBegin(t, c[1], c[2])
    \/ \E t \in Clients, c \in StoreStatsIds : StatsBegin(t, c)
    \/ \E t \in Clients : Acquire(t)
    \/ \E t \in Clients : Load(t)
    \/ \E t \in Clients : Save(t)
    \/ \E t \in Clients : SaveFails(t)
    \/ \E t \in Clients : StatsRead(t)
SpecStore == InitStore /\ [][NextStore]_vars

\* The server with the write of update_tracking_data taken step by step, so
\* that the states between truncation and completion are there to be seen.
SnapshotIds == {EntryId(7), EntryId(8)}
InitSnapshot == SrvInit /\ FsInit /\ IdParked /\ SendParked
NextSnapshot ==
    \/ \E t \in Clients, id \in SnapshotIds : TrackOpenBegin(t, id)
    \/ \E t \in Clients : TrackClickBegin(t, EntryId(7), GoodUrl)
    \/ \E t \in Clients : StatsBegin(t, Campaign1)
    \/ \E t \in Clients : Acquire(t)
    \/ \E t \in Clients : Load(t)
    \/ \E t \in Clients : Truncate(t)
    \/ \E t \in Clients : Dump(t)
    \/ \E t \in Clients : StatsRead(t)
SpecSnapshot == InitSnapshot /\ [][NextSnapshot]_vars

\* The same under fair scheduling: a request thread that can take a step
\* is not held back for ever.
FairStore ==
    \A t \in Clients :
        /\ WF_vars(Acquire(t))
        /\ WF_vars(Load(t))
        /\ WF_vars(Save(t) \/ SaveFails(t))
        /\ WF_vars(StatsRead(t))
SpecStoreFair == InitStore /\ [][NextStore]_vars /\ FairStore


\* The deployed system: a campaign is sent while the tracking server takes
\* requests, for identifiers of its own and for those the send loop has put
\* into the emails. The lead sheet holds rows the send loop gets through.
SystemLeads ==
    {l \in UNION {LeadLists(n) : n \in 0..MaxSysLeads} :
        \A i \in 1..Len(l) : ~PrepareRaises(l[i]) /\ ~SafeNameRaises(l[i])}

SystemIds == {EntryId(7)} \cup DOMAIN tracking_data

InitSystem ==
    /\ SrvInit
    /\ FsInit
    /\ IdParked
    /\ sendpc = "loop"
    /\ leads \in SystemLeads
    /\ batch_size = MaxBatch
    /\ idx = 0
    /\ successful_sends = 0
    /\ failed_sends = 0
    /\ attempts = <<>>
    /\ sleeps = <<>>
    /\ tracking_data = <<>>
    /\ results = <<>>
    /\ report = NoReport
NextSystem ==
    \/ SendSkip
    \/ \E success \in BOOLEAN : SendDispatch(success, Repeat("a", NonceLen))
    \/ SendReturn
    \/ GenerateReport
    \/ \E t \in Clients, id \in SystemIds : TrackOpenBegin(t, id)
    \/ \E t \in Clients, id \in SystemIds : TrackClickBegin(t, id, GoodUrl)
    \/ \E t \in Clients : Acquire(t)
    \/ \E t \in Clients : Load(t)
    \/ \E t \in Clients : Save(t)
SpecSystem == InitSystem /\ [][NextSystem]_vars


\* The report and the statistics endpoint applied to one campaign record:
\* entries in the send loop's format, each sent or not, opened or not,
\* clicked or not. The record is in the memory of the send loop and in the
\* file the server reads.
ReportEntryKinds ==
    {[SeededEntry(<<"7">>) EXCEPT !.sent_time = s, !.opened = o, !.clicked = c] :
        s \in {0, 1}, o \in BOOLEAN, c \in BOOLEAN}

ReportRecords ==
    UNION {[{GenerateTrackingId(Campaign1, <<DigitChar(k)>>, Repeat("a", NonceLen)) :
                k \in 1..n} -> ReportEntryKinds] : n \in 0..MaxEntries}

InitReport ==
    /\ SrvInit
    /\ now = 1
    /\ unparsable = {}
    /\ pixel = TRUE
    /\ tracking_data \in ReportRecords
    /\ files = WriteFile(<<>>, DataFile(Campaign1), tracking_data)
    /\ IdParked
    /\ sendpc = "done"
    /\ leads = <<>>
    /\ batch_size = 1
    /\ idx = 0
    /\ successful_sends = 0
    /\ failed_sends = 0
    /\ attempts = <<>>
    /\ sleeps = <<>>
    /\ results = <<>>
    /\ report = NoReport
NextReport ==
    \/ GenerateReport
    \/ StatsBegin(1, Campaign1)
    \/ StatsRead(1)
SpecReport == InitReport /\ [][NextReport]_vars

-----------------------------------------------------------------------------
(* Properties of the tracking server *)

Ingestions == {t \in Threads : req[t].op \in {"open", "click"}}
Completed  == {t \in Ingestions : pc[t] = "done" /\ resp[t].status # 400}

\* The persisted entry of a tracking id, if any.
HasEntry(tracking_id) ==
    /\ Exists(files, DataFile(CampaignIdOf(tracking_id)))
    /\ tracking_id \in DOMAIN files[DataFile(CampaignIdOf(tracking_id))]
EntryOf(tracking_id) == files[DataFile(CampaignIdOf(tracking_id))][tracking_id]

EventsFrom(t) ==
    {k \in 1..Len(EntryOf(req[t].id).events) :
        /\ EntryOf(req[t].id).events[k].ip = t
        /\ EntryOf(req[t].id).events[k].action = req[t].action}

\* C1: no update is lost. Every ingestion call that has returned, whatever
\* the interleaving with the other calls, has left an entry for its
\* identifier in the campaign file and exactly one event of its own in that
\* entry; an entry holds as many events as calls for it have returned or
\* are past their write.
C1_NoLostUpdate ==
    /\ \A t \in Completed :
          /\ HasEntry(req[t].id)
          /\ Cardinality(EventsFrom(t)) = 1
    /\ \A id \in TrackIds :
          HasEntry(id) =>
             Len(EntryOf(id).events) = Cardinality({t \in Completed : req[t].id = id})

C1_Witness ==
    /\ Completed = Threads
    /\ \A t \in Threads : CampaignIdOf(req[t].id) = Campaign1
    /\ \E t, u \in Threads : t # u /\ req[t].id = req[u].id
    /\ \E t, u \in Threads : req[t].id # req[u].id
    /\ \E t, u \in Threads : t < u /\ req[t].id = req[u].id /\
          EntryOf(req[t].id).events[1].ip = u

OpensDone(id) == {t \in Completed : req[t].op = "open" /\ req[t].id = id}

OpenedEvents(id) ==
    {k \in 1..Len(EntryOf(id).events) : EntryOf(id).events[k].action = "opened"}

\* C2: after k >= 1 track_open calls on one valid identifier have returned,
\* its entry has opened = true and holds exactly k opened events (one per
\* call), and every call adds exactly one event to the list.
C2_OpenIdempotent ==
    /\ \A id \in TrackIds :
          OpensDone(id) # {} =>
             /\ HasEntry(id)
             /\ GetFlag(EntryOf(id), "opened")
             /\ Cardinality(OpenedEvents(id)) = Cardinality(OpensDone(id))
    /\ \A t \in Threads :
          (pc[t] = "save" /\ req[t].op = "open" /\ HasEntry(req[t].id)) =>
             LET after == UpdatedData(files[DataFile(CampaignIdOf(req[t].id))],
                                      req[t].id, "opened", now, t, NoUrl)
             IN  /\ Len(after[req[t].id].events) = Len(EntryOf(req[t].id).events) + 1
                 /\ GetFlag(after[req[t].id], "opened")

C2_Witness ==
    \E id \in TrackIds :
        /\ OpensDone(id) = Threads
        /\ Len(EntryOf(id).events) = NThreads
        /\ GetFlag(EntryOf(id), "opened")

InvalidRequests ==
    {t \in Threads : req[t].op \in {"open", "click"} /\ ~is_valid_tracking_id(req[t].id)}

\* C4: a request whose identifier fails validation is answered 400 (no
\* redirect for a click), and the step that handles it leaves the file system
\* as it was; the identifier never becomes a key of any campaign file.
C4_InvalidRejected ==
    /\ [](\A t \in InvalidRequests :
             /\ pc[t] = "done"
             /\ resp[t].status = 400
             /\ resp[t].kind # "redirect"
             /\ resp[t].location = NoUrl
             /\ \A path \in DOMAIN files : req[t].id \notin DOMAIN files[path])
    /\ [][\A t \in Threads :
             (req'[t] # req[t] /\ req'[t].op \in {"open", "click"}
                 /\ ~is_valid_tracking_id(req'[t].id)) => files' = files]_vars

C4_Witness ==
    /\ \E t, u \in InvalidRequests :
          /\ req[t].op = "open" /\ req[t].id = TraversalId
          /\ req[u].op = "click" /\ req[u].id = TraversalId
          /\ resp[t].status = 400 /\ resp[u].status = 400
    /\ DOMAIN files # {}

StoredRecord(campaign_id) ==
    IF Exists(files, DataFile(campaign_id)) THEN files[DataFile(campaign_id)] ELSE EmptyData

\* C5: once one track_open and one track_click (with a valid url) on the
\* identifier the send loop generated for campaign 20250101000000 and
\* recipient 7 have returned, the stats of that campaign are 1 recipient,
\* 1 open, 1 click, all three rates 100, and the recipient is a hot lead and
\* not a warm lead.
C5_EndToEnd ==
    (\E t, u \in Threads :
        /\ pc[t] = "done" /\ req[t].op = "open" /\ req[t].id = GeneratedId
        /\ pc[u] = "done" /\ req[u].op = "click" /\ req[u].id = GeneratedId
        /\ req[u].url = GoodUrl
        /\ \A v \in Threads \ {t, u} : req[v].op \notin {"open", "click"})
    =>
    /\ CampaignStatsResponse(files, Campaign1) =
          Response(200, "stats",
                   [campaign_id        |-> Campaign1,
                    total_recipients   |-> 1,
                    total_opens        |-> 1,
                    total_clicks       |-> 1,
                    open_rate          |-> 10000,
                    click_rate         |-> 10000,
                    click_to_open_rate |-> 10000],
                   NoUrl)
    /\ HotLeads(StoredRecord(Campaign1)) = {GeneratedId}
    /\ WarmLeads(StoredRecord(Campaign1)) = {}

-----------------------------------------------------------------------------
(* Properties of the identifier scheme *)

\* C3: is_valid_tracking_id accepts exactly the strings of three non-empty
\* alphanumeric segments separated by two underscores, and in particular
\* every identifier generated from an alphanumeric campaign id and lead id.
C3_ValidatorThreeSegments ==
    idpc = "checked" =>
        /\ valid <=> ThreeSegments(tid)
        /\ (genArgs # <<>> /\ IsAlnumRun(genArgs[1]) /\ IsAlnumRun(genArgs[2])) => valid

\* C6: for a campaign id and a lead id free of '_', the campaign id that
\* update_tracking_data extracts from the generated identifier is the
\* campaign id it was generated from, so the event goes to that campaign's
\* file; the extraction touches no file.
C6_RoutingRoundTrip ==
    (idpc = "checked" /\ genArgs # <<>>
        /\ NoSeparator(genArgs[1]) /\ NoSeparator(genArgs[2]))
    =>
    /\ parsed = genArgs[1]
    /\ DataFile(parsed) = <<TRACKING_DATA_DIR, genArgs[1]>>
    /\ DOMAIN files = {}

C6_Witness ==
    /\ idpc = "checked"
    /\ genArgs # <<>>
    /\ genArgs[1] = <<"a", "7">>
    /\ genArgs[2] = <<"7", "a">>
    /\ parsed = <<"a", "7">>

-----------------------------------------------------------------------------
(* Properties of the send loop *)

BatchSleepAfter(k) ==
    \E j \in 1..Len(sleeps) :
        sleeps[j] = Sleep(k, "batch", 2 * DelayMax, 3 * DelayMax)

InterSleepAfter(k) ==
    \E j \in 1..Len(sleeps) : sleeps[j] = Sleep(k, "inter", DelayMin, DelayMax)

Attempted == {attempts[j] : j \in 1..Len(attempts)}

RECURSIVE AddressedFrom(_)
\* The 1-based positions, from k on, of the rows that have an address.
AddressedFrom(k) ==
    IF k > Len(leads) THEN <<>>
    ELSE (IF leads[k].email = "addr" THEN <<k>> ELSE <<>>) \o AddressedFrom(k + 1)

\* C8: in a run that has returned, the batch break (a sleep drawn from
\* [2*delayMax, 3*delayMax]) is taken after the k-th row exactly when k is a
\* multiple of the batch size and the k-th row is not the last, whether or
\* not rows were skipped.
C8_BatchBreak ==
    sendpc = "done" =>
        \A k \in 1..Len(leads) :
            BatchSleepAfter(k) <=> (k % batch_size = 0 /\ k # Len(leads))

\* C9: in a run that has returned, the inter-message sleep (drawn from
\* [delayMin, delayMax]) follows every row that was dispatched except the
\* last dispatched one, and no sleep follows that last one.
C9_InterSleep ==
    sendpc = "done" =>
        \A k \in 1..Len(leads) :
            InterSleepAfter(k) <=>
                (k \in Attempted /\ \E m \in Attempted : m > k)

\* C10: whatever the rows and the outcomes of the dispatches, run_campaign
\* ends by returning, having dispatched once, in order, to each row that has
\* an address and to no other, and the two counters add up to the number of
\* rows with an address.
C10_EveryAddressAttempted ==
    sendpc \in {"done", "raised"} =>
        /\ sendpc = "done"
        /\ attempts = AddressedFrom(1)
        /\ successful_sends + failed_sends = Len(AddressedFrom(1))

-----------------------------------------------------------------------------
(* Properties of the stats endpoint *)

StatsAnswered == {t \in Threads : req[t].op = "stats" /\ pc[t] = "done"}

Flagged(data, flag) ==
    {k \in DOMAIN data :
        /\ flag \in data[k].keys
        /\ (flag = "opened" => data[k].opened)
        /\ (flag = "clicked" => data[k].clicked)}

\* rate (in hundredths of a percent) is exactly part / whole * 100
ExactRate(rate, part, whole) ==
    IF whole = 0 THEN rate = 0 ELSE rate * whole = 10000 * part

\* rate (in hundredths of a percent) is part / whole * 100 rounded to the
\* nearest hundredth
RoundedRate(rate, part, whole) ==
    IF whole = 0 THEN rate = 0
    ELSE 2 * (rate * whole - 10000 * part) \in (0 - whole)..whole

\* C7 as stated: the counts are the numbers of entries, of opened entries and
\* of clicked entries, and each rate is exactly the quotient times 100, 0 on
\* an empty denominator; the answer is 200 whenever the file exists.
C7_StatsExact ==
    \A t \in StatsAnswered :
        Exists(files, DataFile(req[t].id)) =>
            LET data == files[DataFile(req[t].id)]
                st   == resp[t].stats
                n    == Cardinality(DOMAIN data)
                o    == Cardinality(Flagged(data, "opened"))
                c    == Cardinality(Flagged(data, "clicked"))
            IN  /\ resp[t].status = 200
                /\ st.total_recipients = n
                /\ st.total_opens = o
                /\ st.total_clicks = c
                /\ ExactRate(st.open_rate, o, n)
                /\ ExactRate(st.click_rate, c, n)
                /\ ExactRate(st.click_to_open_rate, c, o)

\* C7 amended: as above, each rate being the quotient times 100 rounded to
\* two decimals.
C7_StatsRounded ==
    \A t \in StatsAnswered :
        Exists(files, DataFile(req[t].id)) =>
            LET data == files[DataFile(req[t].id)]
                st   == resp[t].stats
                n    == Cardinality(DOMAIN data)
                o    == Cardinality(Flagged(data, "opened"))
                c    == Cardinality(Flagged(data, "clicked"))
            IN  /\ resp[t].status = 200
                /\ st.total_recipients = n
                /\ st.total_opens = o
                /\ st.total_clicks = c
                /\ RoundedRate(st.open_rate, o, n)
                /\ RoundedRate(st.click_rate, c, n)
                /\ RoundedRate(st.click_to_open_rate, c, o)

C7_Witness ==
    \E t \in StatsAnswered :
        /\ resp[t].status = 200
        /\ resp[t].stats.total_recipients = 3
        /\ resp[t].stats.total_opens = 1
        /\ resp[t].stats.open_rate = 3333
        /\ resp[t].stats.total_clicks = 2
        /\ resp[t].stats.click_rate = 6667


-----------------------------------------------------------------------------
(* Properties of the click redirect *)

ClicksDone ==
    {t \in Threads : req[t].op = "click" /\ pc[t] = "done"
                     /\ is_valid_tracking_id(req[t].id)}

\* An absolute http/https url with a non-empty host.
HasHttpHost(raw) ==
    raw.given /\ raw.scheme \in {"http", "https"} /\ raw.hostname # ""

\* C11: for every valid identifier track_click answers with a redirect, to
\* the supplied url when that is an absolute http/https url with a non-empty
\* host and to the default url when the parameter is absent or not of that
\* form; the clicked event appended to the store carries the url redirected to.
C11_ClickRedirect ==
    \A t \in ClicksDone :
        /\ resp[t].status = 302
        /\ resp[t].kind = "redirect"
        /\ resp[t].location = IF HasHttpHost(req[t].raw) THEN req[t].raw
                              ELSE DEFAULT_REDIRECT_URL
        /\ HasEntry(req[t].id)
        /\ EventsFrom(t) # {}
        /\ \A i \in EventsFrom(t) :
              EntryOf(req[t].id).events[i].url = resp[t].location


-----------------------------------------------------------------------------
(* Properties of the server over a store that may fail *)

\* The status the statistics endpoint owes for a campaign id.
StatsStatus(campaign_id) ==
    IF ~IsAlnumRun(campaign_id) THEN 400
    ELSE IF ~Exists(files, DataFile(campaign_id)) THEN 404
    ELSE IF DataFile(campaign_id) \in unparsable THEN 500
    ELSE 200

\* C12: campaign_stats answers 400 for a campaign id that is not purely
\* alphanumeric, 404 when no store file exists, 500 when the file exists but
\* cannot be parsed and 200 otherwise; no step of it creates or changes a file.
C12_StatsStatus ==
    [][\A t \in Threads :
          (req'[t].op = "stats" /\ pc'[t] # pc[t]) =>
              /\ files' = files
              /\ unparsable' = unparsable
              /\ pc'[t] = "done" => resp'[t].status = StatsStatus(req'[t].id)]_vars


\* The pixel requests with a valid identifier whose store update failed.
FailedOpens ==
    {t \in Threads : /\ req[t].op = "open"
                     /\ pc[t] = "done"
                     /\ is_valid_tracking_id(req[t].id)
                     /\ local[t].logged = "error"}

\* C13: when the store file is corrupt or the update fails, a pixel request
\* with a valid identifier is answered with status 500.
C13_FailedOpenIs500 ==
    \A t \in FailedOpens : resp[t].status = 500

\* C13 amended: such a request is answered as if the update had succeeded,
\* with the pixel (500 only when the pixel file itself is missing); the
\* failure is logged and the event is in no record.
C13_FailedOpenGetsPixel ==
    \A t \in FailedOpens :
        /\ resp[t] = IF pixel THEN Response(200, "pixel", NoStats, NoUrl)
                     ELSE Response(500, "error", NoStats, NoUrl)
        /\ HasEntry(req[t].id) => EventsFrom(t) = {}

C13_Witness ==
    \E t \in FailedOpens :
        /\ resp[t].status = 200
        /\ local[t].current_time = 0
        /\ DataFile(CampaignIdOf(req[t].id)) \in unparsable


\* The open and click requests with a valid identifier that were answered.
Answered ==
    {t \in Threads : /\ req[t].op \in {"open", "click"}
                     /\ pc[t] = "done"
                     /\ is_valid_tracking_id(req[t].id)}

\* C14: for a valid identifier the response of track_open and track_click is
\* the same whether the store update succeeded or failed; the failure stays
\* inside update_tracking_data, which leaves file_lock free, so that later
\* requests are served.
C14_FailureContained ==
    /\ \A t \in Answered :
          /\ local[t].logged \in {"updated", "error"}
          /\ resp[t] = HandlerResponse(req[t])
    /\ \A t, u \in Answered :
          (req[t].op = req[u].op /\ req[t].url = req[u].url) => resp[t] = resp[u]
    /\ lock # NoThread => pc[lock] \in {"load", "save"}

C14_Witness ==
    \E t, u \in Answered :
        /\ local[t].logged = "error"
        /\ local[u].logged = "updated"
        /\ local[t].current_time > 0
        /\ local[u].current_time > local[t].current_time
        /\ req[t].op = req[u].op
        /\ resp[t] = resp[u]
        /\ resp[u].status \in {200, 302}


\* C15: if a campaign file is corrupt or unparsable, every ingestion against
\* it aborts without writing: the file stays, with the content it had.
C15_CorruptUntouched ==
    [][\A p \in unparsable :
          /\ p \in unparsable'
          /\ Exists(files', p)
          /\ files'[p] = files[p]]_vars

\* An ingestion has met an unparsable file: it failed before reading the clock.
C15_Witness ==
    \E t \in Answered :
        /\ local[t].logged = "error"
        /\ local[t].current_time = 0
        /\ DataFile(CampaignIdOf(req[t].id)) \in unparsable

\* C16: a store write is all-or-nothing. Whatever happens during the save
\* step, the file then holds the complete prior or the complete new record,
\* never a truncated one: no step makes a file unparsable.
C16_WriteAllOrNothing ==
    [][unparsable' \subseteq unparsable]_vars


-----------------------------------------------------------------------------
(* Properties of the send loop and the server side by side *)

\* The entry new keeps what the entry old has recorded.
Keeps(old, new) ==
    /\ Len(new.events) >= Len(old.events)
    /\ SubSeq(new.events, 1, Len(old.events)) = old.events
    /\ old.opened => new.opened
    /\ old.clicked => new.clicked
    /\ old.sent_time # 0 => new.sent_time = old.sent_time

\* C17: every write to a campaign file, by the ingestion and by the send
\* loop, is one load-modify-save cycle made while holding a lock that covers
\* both: the writer is the holder of the lock, and the file it leaves keeps
\* every event, flag and sent time the file had.
C17_WritesUnderLock ==
    [][files' # files =>
          /\ lock # NoThread
          /\ pc'[lock] # pc[lock]
          /\ \A p \in DOMAIN files : \A k \in DOMAIN files[p] :
                /\ Exists(files', p)
                /\ k \in DOMAIN files'[p]
                /\ Keeps(files[p][k], files'[p][k])]_vars


-----------------------------------------------------------------------------
(* Properties of the entries *)

\* The call of thread t writes the record back, its identifier having had no
\* entry in the record it loaded.
FirstEventStep(t) ==
    /\ pc[t] = "save"
    /\ pc'[t] = "done"
    /\ req[t].id \notin DOMAIN local[t].data

\* C18: an event for a valid identifier that has no entry yet, also when no
\* campaign file exists, is accepted and not dropped: the file is created
\* if absent, a shell entry is created, and the event is appended to it with
\* its flag set.
C18_UnknownIdAccepted ==
    [][\A t \in Threads :
          /\ (pc[t] = "load" /\ pc'[t] # "load") =>
                Exists(files', DataFile(CampaignIdOf(req[t].id)))
          /\ FirstEventStep(t) =>
                LET path  == DataFile(CampaignIdOf(req[t].id))
                    entry == files'[path][req[t].id]
                IN  /\ Exists(files', path)
                    /\ req[t].id \in DOMAIN files'[path]
                    /\ entry.first_seen = local[t].current_time
                    /\ Len(entry.events) = 1
                    /\ entry.events[1].action = req[t].action
                    /\ entry.events[1].ip = t
                    /\ GetFlag(entry, req[t].action)
                    /\ \A k \in DOMAIN local[t].data :
                          k \in DOMAIN files'[path] /\ files'[path][k] = local[t].data[k]
                    /\ resp'[t].status \in {200, 302}]_vars

\* An identifier was served when its campaign had no file, and another one
\* of the same campaign later.
C18_Witness ==
    \E t, u \in Completed :
        /\ local[t].data = EmptyData
        /\ local[t].current_time = 1
        /\ local[u].data # EmptyData
        /\ req[u].id \notin DOMAIN local[u].data
        /\ HasEntry(req[t].id) /\ Len(EntryOf(req[t].id).events) = 1
        /\ HasEntry(req[u].id) /\ Len(EntryOf(req[u].id).events) = 1


\* The (path, tracking id) pairs of the persisted entries.
PersistedEntries(fs) ==
    {e \in (DOMAIN fs) \X UNION {DOMAIN fs[q] : q \in DOMAIN fs} :
        e[2] \in DOMAIN fs[e[1]]}

\* C19: under every interleaving of the send loop's saves and of open and
\* click ingestions, a persisted entry that has opened (clicked) true has it
\* true in every later state: no step resets the flag or removes the entry.
C19_FlagsMonotone ==
    [][\A e \in PersistedEntries(files) :
          LET old == files[e[1]][e[2]]
          IN  (old.opened \/ old.clicked) =>
                 /\ e \in PersistedEntries(files')
                 /\ old.opened => files'[e[1]][e[2]].opened
                 /\ old.clicked => files'[e[1]][e[2]].clicked]_vars

\* An entry was opened and clicked, and the send loop has saved its record,
\* with a sent entry, after the first of the two events.
C19_Witness ==
    /\ HasEntry(EntryId(7))
    /\ EntryOf(EntryId(7)).opened
    /\ EntryOf(EntryId(7)).clicked
    /\ Exists(files, CampaignFile(Campaign1))
    /\ \E k \in DOMAIN files[CampaignFile(Campaign1)] :
          /\ files[CampaignFile(Campaign1)][k].sent_time > EntryOf(EntryId(7)).first_seen
          /\ files[CampaignFile(Campaign1)][k].sent_time < EntryOf(EntryId(7)).last_activity


FlagsSet(entry) ==
    (IF entry.opened THEN 1 ELSE 0) + (IF entry.clicked THEN 1 ELSE 0)

HasEventOf(entry, action) ==
    \E i \in 1..Len(entry.events) : entry.events[i].action = action

\* C20: in every reachable state every persisted entry has at least as many
\* events as it has true flags, and a flag is true only if the events hold
\* one with that action.
C20_FlagsBackedByEvents ==
    \A e \in PersistedEntries(files) :
        LET entry == files[e[1]][e[2]]
        IN  /\ Len(entry.events) >= FlagsSet(entry)
            /\ entry.opened => HasEventOf(entry, "opened")
            /\ entry.clicked => HasEventOf(entry, "clicked")

\* An entry with both flags and just the two events, next to a record the
\* send loop has saved.
C20_Witness ==
    /\ \E e \in PersistedEntries(files) :
          /\ files[e[1]][e[2]].opened
          /\ files[e[1]][e[2]].clicked
          /\ Len(files[e[1]][e[2]].events) = 2
    /\ \E e \in PersistedEntries(files) :
          /\ "events" \notin files[e[1]][e[2]].keys
          /\ files[e[1]][e[2]].sent_time > 0


-----------------------------------------------------------------------------
(* Properties of the record the send loop keeps and of its report *)

\* run_campaign has returned its counters.
Returned == sendpc \in {"done", "reported"}

\* The record the send loop has persisted.
PersistedRecord ==
    IF Exists(files, CampaignFile(Campaign1)) THEN files[CampaignFile(Campaign1)]
    ELSE EmptyData

\* The entries of a record for the lead at a 1-based position of the sheet.
EntriesOfLead(data, pos) ==
    {k \in DOMAIN data : data[k].lead_id = <<DigitChar(pos - 1)>>}

\* C21: after a run the persisted record has an entry with sent time set for
\* each recipient whose dispatch succeeded, and no entry for a recipient
\* whose dispatch failed.
C21_EntryOnlyOnSuccess ==
    Returned =>
        \A i \in 1..Len(attempts) :
            LET es == EntriesOfLead(PersistedRecord, attempts[i])
            IN  IF results[i]
                THEN es # {} /\ \A k \in es : PersistedRecord[k].sent_time # 0
                ELSE es = {}

\* C21 amended: after a run that returned, the persisted record has one
\* entry for each recipient handed to dispatch and for no other; its sent
\* time is set exactly when the dispatch succeeded, so a failed recipient
\* has an entry with sent time null.
C21_EntryPerAttempt ==
    Returned =>
        /\ \A i \in 1..Len(attempts) :
              LET es == EntriesOfLead(PersistedRecord, attempts[i])
              IN  /\ Cardinality(es) = 1
                  /\ \A k \in es : (PersistedRecord[k].sent_time # 0) <=> results[i]
        /\ \A k \in DOMAIN PersistedRecord :
              \E i \in 1..Len(attempts) : k \in EntriesOfLead(PersistedRecord, attempts[i])

C21_Witness ==
    /\ Returned
    /\ \E i, j \in 1..Len(attempts) :
          /\ results[i]
          /\ ~results[j]
          /\ \E k \in EntriesOfLead(PersistedRecord, attempts[j]) :
                PersistedRecord[k].sent_time = 0
          /\ \E k \in EntriesOfLead(PersistedRecord, attempts[i]) :
                PersistedRecord[k].sent_time # 0


\* C22: in every campaign report the hot leads are exactly the entries with
\* clicked true and the warm leads exactly those with opened true and clicked
\* false; no entry is in both lists and an entry with neither flag is in
\* neither.
C22_HotWarmPartition ==
    sendpc = "reported" =>
        /\ \A k \in DOMAIN tracking_data :
              /\ k \in report.hot_leads <=> tracking_data[k].clicked
              /\ k \in report.warm_leads <=>
                    (tracking_data[k].opened /\ ~tracking_data[k].clicked)
              /\ (~tracking_data[k].opened /\ ~tracking_data[k].clicked) =>
                    (k \notin report.hot_leads /\ k \notin report.warm_leads)
        /\ report.hot_leads \cap report.warm_leads = {}
        /\ report.hot_leads \cup report.warm_leads \subseteq DOMAIN tracking_data

C22_Witness ==
    /\ sendpc = "reported"
    /\ report.hot_leads # {}
    /\ report.warm_leads # {}
    /\ \E k \in report.hot_leads : tracking_data[k].opened
    /\ \E k \in DOMAIN tracking_data :
          k \notin report.hot_leads /\ k \notin report.warm_leads


\* A rate of the report, a quotient num / den, and a rate of the statistics
\* endpoint, in hundredths of a percent, are the same number.
SameRate(r, hundredths) == r.num * 100 = hundredths * r.den

\* A rate of the report is part / whole * 100 (0 when whole is 0).
RateOver(r, part, whole) ==
    IF whole = 0 THEN r.num = 0 ELSE r.num * whole = part * 100 * r.den

-----------------------------------------------------------------------------
(* Further properties of the tracking server *)

\* The flag an entry has in a file system, FALSE when there is no such entry.
FlagIn(fs, tracking_id, flag) ==
    LET path == DataFile(CampaignIdOf(tracking_id))
    IN  /\ Exists(fs, path)
        /\ tracking_id \in DOMAIN fs[path]
        /\ GetFlag(fs[path][tracking_id], flag)

\* C24: opened and clicked are independent. Recording an open leaves the
\* entry's clicked flag as it was and recording a click leaves its opened
\* flag as it was; whatever the order of the events, an entry has a flag
\* exactly when it has an event of that action. (That an entry clicked and
\* not opened is reachable is shown by the witness.)
C24_FlagsIndependent ==
    /\ [](\A e \in PersistedEntries(files) :
             LET entry == files[e[1]][e[2]]
             IN  /\ GetFlag(entry, "opened") <=>
                       \E i \in 1..Len(entry.events) : entry.events[i].action = "opened"
                 /\ GetFlag(entry, "clicked") <=>
                       \E i \in 1..Len(entry.events) : entry.events[i].action = "clicked")
    /\ [][\A t \in Threads :
             (pc[t] = "save" /\ pc'[t] = "done") =>
                 /\ req[t].action = "opened" =>
                       (FlagIn(files', req[t].id, "clicked")
                           <=> FlagIn(files, req[t].id, "clicked"))
                 /\ req[t].action = "clicked" =>
                       (FlagIn(files', req[t].id, "opened")
                           <=> FlagIn(files, req[t].id, "opened"))]_vars

\* An entry that is clicked and not opened, and one whose click came first
\* and whose open came second, with both flags.
C24_Witness ==
    /\ \E e \in PersistedEntries(files) :
          /\ files[e[1]][e[2]].clicked
          /\ ~files[e[1]][e[2]].opened
    /\ \E e \in PersistedEntries(files) :
          LET entry == files[e[1]][e[2]]
          IN  /\ Len(entry.events) = 2
              /\ entry.events[1].action = "clicked"
              /\ entry.events[2].action = "opened"
              /\ entry.opened /\ entry.clicked


\* The request threads inside a handler, and those that can take a step.
Pending == {t \in Threads : pc[t] \in {"acquire", "load", "save", "stats"}}
CanStep ==
    {t \in Pending : pc[t] \in {"load", "save"} \/ lock = NoThread}

\* C25: file_lock is held only during one load-modify-save cycle and is
\* released on every path, also when the load, the modification or the save
\* raises; no state with a request under way is a deadlock; and under fair
\* scheduling every request that waits for the lock gets it and completes.
C25_LockLiveness ==
    /\ [](lock # NoThread => pc[lock] \in {"load", "save"})
    /\ [](Pending # {} => CanStep # {})
    /\ \A t \in Threads : (pc[t] \in {"acquire", "stats"}) ~> (pc[t] = "done")

\* A call has failed under the lock, another has written, and a third
\* request holds the lock now.
C25_Witness ==
    \E t, u \in Threads :
        /\ pc[t] = "done" /\ local[t].logged = "error" /\ local[t].current_time > 0
        /\ pc[u] = "save" /\ lock = u
        /\ local[u].current_time > local[t].current_time


\* The entry of an identifier in a file system, a fresh shell if it has none.
EntryIn(fs, tracking_id) ==
    LET path == DataFile(CampaignIdOf(tracking_id))
    IN  IF Exists(fs, path) /\ tracking_id \in DOMAIN fs[path]
        THEN fs[path][tracking_id]
        ELSE ShellEntry(0)

\* C26: each successful ingestion for an identifier appends exactly one event
\* at the end of its events list and leaves unchanged the events that were in
\* the list, the entry's recipient fields and sent time, and the entries of
\* all other identifiers; the events are in the order in which the requests
\* took the lock.
C26_AppendOnly ==
    /\ [][\A t \in Threads :
             (pc[t] = "save" /\ pc'[t] = "done" /\ local'[t].logged = "updated") =>
                 LET old == EntryIn(files, req[t].id)
                     new == EntryIn(files', req[t].id)
                 IN  /\ Len(new.events) = Len(old.events) + 1
                     /\ SubSeq(new.events, 1, Len(old.events)) = old.events
                     /\ new.events[Len(new.events)].ip = t
                     /\ new.events[Len(new.events)].action = req[t].action
                     /\ new.lead_id = old.lead_id
                     /\ new.sent_time = old.sent_time
                     /\ \A e \in PersistedEntries(files) :
                           e[2] # req[t].id =>
                               /\ e \in PersistedEntries(files')
                               /\ files'[e[1]][e[2]] = files[e[1]][e[2]]]_vars
    /\ [](\A e \in PersistedEntries(files) :
             LET events == files[e[1]][e[2]].events
             IN  \A i, j \in 1..Len(events) :
                    i < j => events[i].timestamp < events[j].timestamp)

\* An entry with events of two calls, next to the entry of another identifier
\* written in between.
C26_Witness ==
    \E e, f \in PersistedEntries(files) :
        /\ e[1] = f[1]
        /\ e[2] # f[2]
        /\ Len(files[e[1]][e[2]].events) = 2
        /\ Len(files[f[1]][f[2]].events) = 1
        /\ files[e[1]][e[2]].events[1].timestamp < files[f[1]][f[2]].events[1].timestamp
        /\ files[f[1]][f[2]].events[1].timestamp < files[e[1]][e[2]].events[2].timestamp


-----------------------------------------------------------------------------
(* Further properties of the send loop and the server side by side *)

\* The opens and clicks answered for identifiers the send loop has persisted.
SeededRequests ==
    {t \in Threads : /\ req[t].op \in {"open", "click"}
                     /\ pc[t] = "done"
                     /\ req[t].id \in DOMAIN PersistedRecord}

\* C27: the send loop and the ingestion work on the same campaign file. Every
\* entry the send loop has persisted is in the file the server reads, an open
\* or click for its identifier is recorded in that entry, and the statistics
\* of the campaign count the seeded recipients.
C27_SameStoreFile ==
    /\ \A k \in DOMAIN PersistedRecord : HasEntry(k)
    /\ \A t \in SeededRequests :
          /\ resp[t].status \in {200, 302}
          /\ HasEntry(req[t].id)
          /\ EventsFrom(t) # {}
    /\ PersistedRecord # EmptyData =>
          /\ CampaignStatsResponse(files, Campaign1).status = 200
          /\ CampaignStatsResponse(files, Campaign1).stats.total_recipients
                >= Cardinality(DOMAIN PersistedRecord)


\* C28: the report of the send-loop process is computed from its in-memory
\* data, which nothing in that process updates with opens or clicks: whatever
\* the tracking server has ingested for the campaign, the report has
\* emails_opened = 0, links_clicked = 0 and no hot or warm leads.
C28_ReportSeesNoEvents ==
    /\ \A k \in DOMAIN tracking_data :
          ~tracking_data[k].opened /\ ~tracking_data[k].clicked
    /\ sendpc = "reported" =>
          /\ report.emails_opened = 0
          /\ report.links_clicked = 0
          /\ report.hot_leads = {}
          /\ report.warm_leads = {}
          /\ report.total_leads = Cardinality(DOMAIN tracking_data)

\* A report over two recipients, made after the server has recorded an open
\* and a click for the campaign.
C28_Witness ==
    /\ sendpc = "reported"
    /\ report.total_leads = 2
    /\ report.emails_sent >= 1
    /\ HasEntry(EntryId(7))
    /\ EntryOf(EntryId(7)).opened
    /\ EntryOf(EntryId(7)).clicked
    /\ EntryOf(EntryId(7)).first_seen < now


\* The number of events in a campaign record.
EventCount(data) ==
    Cardinality({<<k, i>> \in (DOMAIN data) \X (1..NThreads) :
                    i <= Len(data[k].events)})

\* The ingestion calls for a campaign that have returned.
Returns(campaign_id) ==
    {u \in Completed : CampaignIdOf(req[u].id) = campaign_id}

\* C29: campaign_stats reads the file while holding the lock the ingestion
\* writes under. Under every interleaving with concurrent ingestions the
\* record it computes from is the result of a whole number of completed
\* calls, never one seen between the truncation and the completion of a
\* write, and its counts satisfy total_opens <= total_recipients and
\* total_clicks <= total_recipients.
C29_StatsSnapshot ==
    [][\A t \in Threads :
          (pc[t] = "stats" /\ pc'[t] = "done") =>
              LET path == DataFile(req[t].id)
                  st   == resp'[t].stats
              IN  /\ \A u \in Threads : pc[u] \notin {"load", "save", "write"}
                  /\ path \notin unparsable
                  /\ IF Exists(files, path)
                     THEN /\ resp'[t].status = 200
                          /\ st = StatsOf(req[t].id, files[path])
                          /\ EventCount(files[path]) = Cardinality(Returns(req[t].id))
                          /\ st.total_opens <= st.total_recipients
                          /\ st.total_clicks <= st.total_recipients
                     ELSE /\ resp'[t].status = 404
                          /\ Returns(req[t].id) = {}]_vars

\* Statistics answered over a record that a concurrent ingestion has written.
C29_Witness ==
    \E t \in StatsAnswered :
        /\ resp[t].status = 200
        /\ resp[t].stats.total_recipients = 1
        /\ resp[t].stats.total_opens + resp[t].stats.total_clicks = 1
        /\ Returns(req[t].id) # {}


\* The entries of the in-memory record with a sent time, and those without.
SentEntries   == {k \in DOMAIN tracking_data : tracking_data[k].sent_time # 0}
UnsentEntries == {k \in DOMAIN tracking_data : tracking_data[k].sent_time = 0}

\* C30: in the send loop an entry's sent time is set at most once and is
\* non-null exactly when that recipient's dispatch succeeded; after
\* run_campaign has returned the number of entries with a sent time
\* (emails_sent in the report) equals successful_sends and the number of
\* entries with null sent time equals failed_sends.
C30_SentTimeMatchesDispatch ==
    /\ [](/\ \A i \in 1..Len(attempts) :
                LET es == EntriesOfLead(tracking_data, attempts[i])
                IN  /\ Cardinality(es) = 1
                    /\ \A k \in es : (tracking_data[k].sent_time # 0) <=> results[i]
          /\ Returned =>
                /\ Cardinality(SentEntries) = successful_sends
                /\ Cardinality(UnsentEntries) = failed_sends
          /\ sendpc = "reported" => report.emails_sent = successful_sends)
    /\ [][\A k \in SentEntries :
             /\ k \in DOMAIN tracking_data'
             /\ tracking_data'[k].sent_time = tracking_data[k].sent_time]_vars

\* A reported run with a dispatch that succeeded, a later one that failed and
\* a further row handled after the first entry was stamped.
C30_Witness ==
    /\ sendpc = "reported"
    /\ successful_sends >= 1
    /\ failed_sends >= 1
    /\ Len(attempts) >= 3
    /\ results[1]
    /\ report.emails_sent = Cardinality(SentEntries)

=============================================================================
